---- MODULE Spec2Model ----
(***************************************************************************)
(* Model of the nightly sync (syncdata.py), its helpers (copy_data.py) and *)
(* the schema guard (compare_data.py).                                     *)
(*                                                                         *)
(* Python strings are modelled as sequences of one-character strings, so   *)
(* that strip(), lower() and endswith("_") are computed, not assumed.      *)
(* An absent value (None) of a field length or of a spatial-reference code *)
(* is the empty sequence << >>; a present value n is << n >>.              *)
(***************************************************************************)
EXTENDS Integers, Sequences, FiniteSets, TLC

VARIABLES
    \* --- field normalizer (compare_data._norm_name) ---
    normPc,       \* "in" | "once" | "twice"
    normIn,       \* the string given to _norm_name
    normOut,      \* _norm_name(normIn)
    normTwice,    \* _norm_name(_norm_name(normIn))
    \* --- schema guard (compare_data.schema_compare_details / schema_equal) ---
    guardPc,      \* "in" | "compared"
    srcDesc,      \* Describe() of the source schema snapshot
    tgtDesc,      \* Describe() of the target
    allowed,      \* allowed_extra_in_target
    res,          \* the dict schema_compare_details returns
    pairs,        \* the (source key, target key) pairs the field matcher made
    equal,        \* the value schema_equal returns
    \* --- sync (syncdata.main / process_pair) ---
    pc,           \* position in main / process_pair
    pairIdx,      \* position of main's loop in the mapping, 1..NPairs+1
    started,      \* how often process_pair was called for each pair
    outcome,      \* "none" | "running" | "created" | "skipped" | "synced" | "failed"
    source,       \* the service layer of the current pair
    target,       \* the target of the current pair: << >> if it does not exist
    target0,      \* target when process_pair was called
    mem,          \* the in_memory workspace and the layer tmp_schema_lyr
    src_schema,   \* process_pair's local: a path or "None"
    rows_native,  \* process_pair's local: a path or "None"
    rows_wgs,     \* process_pair's local: a path or "None"
    guardRan,     \* schema_equal in this pair: "no" | "ok" | "differs" | "raised"
    writes,       \* the writing operations applied to the target in this pair
    appendFrom,   \* << rows of the target when Append was called >>, or << >>
    kept          \* scratch objects whose Delete raised in this pair's cleanup

normVars  == << normPc, normIn, normOut, normTwice >>
guardVars == << guardPc, srcDesc, tgtDesc, allowed, res, pairs, equal >>
syncVars  == << pc, pairIdx, started, outcome, source, target, target0, mem,
               src_schema, rows_native, rows_wgs, guardRan, writes, appendFrom, kept >>
vars == << normVars, guardVars, syncVars >>

\* the parts of the state a specification does not use stay idle
SyncIdle ==
    /\ pc = "idle" /\ pairIdx = 0 /\ started = << >> /\ outcome = "none"
    /\ source = << >> /\ target = << >> /\ target0 = << >> /\ mem = << >>
    /\ src_schema = "None" /\ rows_native = "None" /\ rows_wgs = "None"
    /\ guardRan = "no" /\ writes = {} /\ appendFrom = << >> /\ kept = {}

NormIdle ==
    /\ normPc = "idle"
    /\ normIn = << >> /\ normOut = << >> /\ normTwice = << >>

GuardIdle ==
    /\ guardPc = "idle"
    /\ srcDesc = << >> /\ tgtDesc = << >> /\ allowed = {}
    /\ res = << >> /\ pairs = {} /\ equal = FALSE

----------------------------------------------------------------------------
(* Python str helpers *)

\* str.lower() on the letters the model uses
UpperToLower ==
    [c \in {"A", "B", "C", "G", "L", "N", "O", "P", "S", "T", "X", "Y"} |->
        CASE c = "A" -> "a" [] c = "B" -> "b" [] c = "C" -> "c"
          [] c = "G" -> "g" [] c = "L" -> "l" [] c = "N" -> "n"
          [] c = "O" -> "o" [] c = "P" -> "p" [] c = "S" -> "s"
          [] c = "T" -> "t" [] c = "X" -> "x" [] c = "Y" -> "y"]

LowerChar(c) == IF c \in DOMAIN UpperToLower THEN UpperToLower[c] ELSE c

Lower(s) == [i \in 1..Len(s) |-> LowerChar(s[i])]

\* the characters str.strip() removes
Whitespace == {" ", "\t"}

RECURSIVE LStrip(_)
LStrip(s) == IF s # << >> /\ Head(s) \in Whitespace THEN LStrip(Tail(s)) ELSE s

RECURSIVE RStrip(_)
RStrip(s) ==
    IF s # << >> /\ s[Len(s)] \in Whitespace
    THEN RStrip(SubSeq(s, 1, Len(s) - 1))
    ELSE s

Strip(s) == RStrip(LStrip(s))

EndsWithUnderscore(s) == s # << >> /\ s[Len(s)] = "_"

----------------------------------------------------------------------------
(* compare_data._norm_name *)

RECURSIVE StripAllUnderscores(_)
StripAllUnderscores(s) ==
    IF EndsWithUnderscore(s)
    THEN StripAllUnderscores(SubSeq(s, 1, Len(s) - 1))
    ELSE s

\* mutant of norm_name: strips every trailing underscore instead of one
norm_name_all(s) ==
    IF s = << >> THEN << >> ELSE StripAllUnderscores(Lower(Strip(s)))

norm_name(s) ==
    IF s = << >>
    THEN << >>
    ELSE LET t == Lower(Strip(s))
         IN  IF EndsWithUnderscore(t) THEN SubSeq(t, 1, Len(t) - 1) ELSE t

----------------------------------------------------------------------------
(* compare_data: field catalog *)

\* SYSTEM_FIELD_NAMES
SYSTEM_FIELD_NAMES ==
    { << "o", "b", "j", "e", "c", "t", "i", "d" >>,
      << "s", "h", "a", "p", "e" >>,
      << "g", "l", "o", "b", "a", "l", "i", "d" >>,
      << "s", "h", "a", "p", "e", "_", "a", "r", "e", "a" >>,
      << "s", "h", "a", "p", "e", "_", "l", "e", "n", "g", "t", "h" >> }

\* the field types _list_user_fields_rich skips
ExcludedTypes == {"OID", "Geometry", "GlobalID", "Blob", "Raster", "XML"}

\* name = (fld.name or "").strip()
FieldName(f) == Strip(f.name)

IsUserField(f) ==
    /\ Lower(FieldName(f)) \notin SYSTEM_FIELD_NAMES
    /\ f.type \notin ExcludedTypes

UserIdx(desc) == {i \in 1..Len(desc.fields) : IsUserField(desc.fields[i])}

FieldKey(f) == norm_name(FieldName(f))

FieldInfo(f) ==
    [name       |-> FieldName(f),
     alias      |-> f.alias,
     type       |-> f.type,
     length     |-> IF f.type = "String" THEN f.length ELSE << >>,
     norm       |-> FieldKey(f),
     alias_norm |-> norm_name(f.alias)]

SetMax(S) == CHOOSE m \in S : \A x \in S : x <= m
SetMin(S) == CHOOSE m \in S : \A x \in S : m <= x

\* the dict keyed by normalized name; a later field with the same key
\* overwrites the value of an earlier one (out[key] = ...)
list_user_fields_rich(desc) ==
    LET idx  == UserIdx(desc)
        keys == {FieldKey(desc.fields[i]) : i \in idx}
    IN  [k \in keys |->
            FieldInfo(desc.fields[SetMax({i \in idx : FieldKey(desc.fields[i]) = k})])]

\* position of key k in the dict's iteration order: a dict keeps a key where it
\* was first inserted
KeyOrder(desc, k) ==
    SetMin({i \in UserIdx(desc) : FieldKey(desc.fields[i]) = k})

\* {info["alias_norm"]: k for k, info in t.items() if info["alias_norm"]}:
\* of the keys sharing an alias, the last in iteration order stays
by_alias(desc) ==
    LET cat     == list_user_fields_rich(desc)
        aliases == {cat[k].alias_norm : k \in DOMAIN cat} \ {<< >>}
    IN  [a \in aliases |->
            CHOOSE k \in DOMAIN cat :
                /\ cat[k].alias_norm = a
                /\ \A j \in DOMAIN cat :
                      cat[j].alias_norm = a => KeyOrder(desc, j) <= KeyOrder(desc, k)]

----------------------------------------------------------------------------
(* compare_data._compare_fields_core *)

\* allowed_names_lc = {f.lower() for f in allowed_extra_in_target}
allowed_names_lc(allowed_extra) == {Lower(f) : f \in allowed_extra}

\* first pass: keys present in both catalogs
name_matched(s, t) == DOMAIN s \cap DOMAIN t

\* second pass, one source key: tk = t_by_alias.get(salias); << >> when the
\* alias is empty or no target carries it
alias_lookup(s, t_by_alias, sk) ==
    LET salias == s[sk].alias_norm
    IN  IF salias # << >> /\ salias \in DOMAIN t_by_alias
        THEN << t_by_alias[salias] >>
        ELSE << >>

\* the source keys the alias pass matches
alias_matched_src(s, t, t_by_alias) ==
    {sk \in DOMAIN s \ name_matched(s, t) : alias_lookup(s, t_by_alias, sk) # << >>}

matched_src(s, t, t_by_alias) ==
    name_matched(s, t) \cup alias_matched_src(s, t, t_by_alias)

matched_tgt(s, t, t_by_alias) ==
    name_matched(s, t)
        \cup {alias_lookup(s, t_by_alias, sk)[1] : sk \in alias_matched_src(s, t, t_by_alias)}

\* the target key the mismatch loop finds for a matched source key
target_of(s, t, t_by_alias, sk) ==
    IF sk \in DOMAIN t THEN sk ELSE t_by_alias[s[sk].alias_norm]

\* (length or 0)
LengthOrZero(l) == IF l = << >> THEN 0 ELSE l[1]

\* mutant of field_mismatch: compares the types only
field_mismatch_types_only(s_info, t_info) ==
    IF s_info.type # t_info.type THEN << "type" >> ELSE << >>

\* the mismatch, if any, of one matched pair: << >>, << "type" >> or << "length" >>
field_mismatch(s_info, t_info) ==
    IF s_info.type # t_info.type
    THEN << "type" >>
    ELSE IF s_info.type = "String"
              /\ LengthOrZero(s_info.length) # LengthOrZero(t_info.length)
         THEN << "length" >>
         ELSE << >>

\* mutant of extra_is_allowed: looks the normalized key up in the allow-list
extra_is_allowed_by_key(t_info, allowed_lc) == t_info.norm \in allowed_lc

\* tname_lc = t[tk]["name"].lower(); tname_lc in allowed_names_lc
extra_is_allowed(t_info, allowed_lc) == Lower(t_info.name) \in allowed_lc

\* lines 193-234, given the two catalogs, the alias index of the target and the
\* lowercased allow-list.  The lists of the details dict are modelled as sets:
\* their elements are pairwise distinct and only membership is read.  "pairs" is
\* not part of the returned tuple: it records the (source key, target key) pairs
\* the two passes made.
match_fields(s, t, t_by_alias, allowed_lc) ==
    LET msrc  == matched_src(s, t, t_by_alias)
        mtgt  == matched_tgt(s, t, t_by_alias)
        missing_src_keys == DOMAIN s \ msrc
        extra_tgt_keys   == DOMAIN t \ mtgt
        extras_not_allowed ==
            {t[tk].name : tk \in {k \in extra_tgt_keys : ~extra_is_allowed(t[k], allowed_lc)}}
        extras_allowed_ignored ==
            {t[tk].name : tk \in {k \in extra_tgt_keys : extra_is_allowed(t[k], allowed_lc)}}
        mismatches ==
            {[src  |-> s[p[1]].name,
              tgt  |-> t[p[2]].name,
              what |-> field_mismatch(s[p[1]], t[p[2]])[1]] :
                p \in {q \in {<< sk, target_of(s, t, t_by_alias, sk) >> : sk \in msrc} :
                          field_mismatch(s[q[1]], t[q[2]]) # << >>}}
    IN  [ok |-> missing_src_keys = {} /\ extras_not_allowed = {} /\ mismatches = {},
         details |->
            [missing_in_target      |-> {s[k].name : k \in missing_src_keys},
             extras_not_allowed     |-> extras_not_allowed,
             type_length_mismatches |-> mismatches,
             extras_allowed_ignored |-> extras_allowed_ignored],
         pairs |-> {<< sk, target_of(s, t, t_by_alias, sk) >> : sk \in msrc}]

\* lines 166-173: the allow-list is lowercased, the two catalogs and the alias
\* index are built once, and the passes read them
compare_fields_core(src_desc, tgt_desc, allowed_extra) ==
    CHOOSE r \in {match_fields(s, t, tba, lc) :
                    s   \in {list_user_fields_rich(src_desc)},
                    t   \in {list_user_fields_rich(tgt_desc)},
                    tba \in {by_alias(tgt_desc)},
                    lc  \in {allowed_names_lc(allowed_extra)}} : TRUE

----------------------------------------------------------------------------
(* compare_data.schema_compare_details / schema_equal *)

\* str(x) of a shapeType: str(None) is "None"
StrOf(x) == IF x = << >> THEN << "N", "o", "n", "e" >> ELSE x

WGS84 == 4326

\* dump_fields (the "editable" key is not modelled)
dump_fields(desc) ==
    [i \in 1..Len(desc.fields) |->
        [name   |-> desc.fields[i].name,
         alias  |-> desc.fields[i].alias,
         type   |-> desc.fields[i].type,
         length |-> IF desc.fields[i].type = "String"
                    THEN desc.fields[i].length ELSE << >>]]

details_of(s_desc, t_desc, core) ==
    LET src_geom == StrOf(s_desc.shapeType)
        tgt_geom == StrOf(t_desc.shapeType)
    IN  [sr_ok         |-> t_desc.wkid = << WGS84 >>,
         tgt_wkid      |-> t_desc.wkid,
         geom_ok       |-> Lower(src_geom) = Lower(tgt_geom),
         src_geom      |-> src_geom,
         tgt_geom      |-> tgt_geom,
         fields_ok     |-> core.ok,
         field_details |-> core.details,
         src_fields    |-> dump_fields(s_desc),
         tgt_fields    |-> dump_fields(t_desc)]

schema_compare_details(s_desc, t_desc, allowed_extra) ==
    CHOOSE r \in {details_of(s_desc, t_desc, core) :
                    core \in {compare_fields_core(s_desc, t_desc, allowed_extra)}} : TRUE

\* mutant of schema_equal: forgets the geometry-type check
schema_equal_no_geom(s_desc, t_desc, allowed_extra) ==
    LET r == schema_compare_details(s_desc, t_desc, allowed_extra)
    IN  r.sr_ok /\ r.fields_ok

schema_equal(s_desc, t_desc, allowed_extra) ==
    LET r == schema_compare_details(s_desc, t_desc, allowed_extra)
    IN  r.sr_ok /\ r.geom_ok /\ r.fields_ok

----------------------------------------------------------------------------
(* Specification of the schema guard: schema_equal on every pair of schema   *)
(* descriptions built from FieldPool, with up to MaxFields fields each.      *)

MaxFields == 2

Fld(name, alias, type, length) ==
    [name |-> name, alias |-> alias, type |-> type, length |-> length]

FieldPool ==
    { Fld(<< "a" >>,      << "x" >>,      "String",   << 50 >>),
      Fld(<< "A", "_" >>, << "X", " " >>, "String",   << 0 >>),
      Fld(<< "b" >>,      << "x" >>,      "String",   << >>),
      Fld(<< " ", "B" >>, << >>,          "Integer",  << >>),
      Fld(<< "S", "h", "a", "p", "e" >>, << "x" >>, "Geometry", << >>) }

\* a table holds a field once
FieldLists ==
    {fs \in UNION {[1..n -> FieldPool] : n \in 0..MaxFields} :
        \A i, j \in 1..Len(fs) : i # j => fs[i] # fs[j]}

Polygon == << "P", "o", "l", "y", "g", "o", "n" >>
POLYGON == << "P", "O", "L", "Y", "G", "O", "N" >>
Point   == << "P", "o", "i", "n", "t" >>

AllowLists == { {}, {<< "B" >>, << "a" >>} }

InitGuard ==
    /\ guardPc = "in"
    /\ srcDesc \in [wkid : {<< 2932 >>}, shapeType : {Polygon}, fields : FieldLists]
    /\ tgtDesc \in [wkid : {<< WGS84 >>, << >>}, shapeType : {POLYGON, Point},
                    fields : FieldLists]
    /\ allowed \in AllowLists
    /\ res = << >> /\ pairs = {} /\ equal = FALSE
    /\ NormIdle
    /\ SyncIdle

\* schema_equal(src_schema, base_path, allowed_extra_in_target=...)
SchemaEqual ==
    /\ guardPc = "in"
    /\ res' = schema_compare_details(srcDesc, tgtDesc, allowed)
    /\ pairs' = compare_fields_core(srcDesc, tgtDesc, allowed).pairs
    /\ equal' = schema_equal(srcDesc, tgtDesc, allowed)
    /\ guardPc' = "compared"
    /\ UNCHANGED << srcDesc, tgtDesc, allowed, normVars, syncVars >>

NextGuard == SchemaEqual

SpecGuard == InitGuard /\ [][NextGuard]_vars

compared == guardPc = "compared"

\* C5: the alias pass pairs a still-unmatched source field only with a target
\* field not matched already: after matching no target field is paired with two
\* source fields and no source field with two target fields, and a source field
\* whose only alias candidate is a target field already paired by name is
\* reported in missing_in_target.
C5_OneToOne ==
    compared =>
        LET s  == list_user_fields_rich(srcDesc)
            t  == list_user_fields_rich(tgtDesc)
            nm == DOMAIN s \cap DOMAIN t
        IN  /\ \A p, q \in pairs :
                  (p[2] = q[2] => p[1] = q[1]) /\ (p[1] = q[1] => p[2] = q[2])
            /\ \A sk \in DOMAIN s \ nm :
                  (\A tk \in DOMAIN t : t[tk].alias_norm = s[sk].alias_norm => tk \in nm)
                     => s[sk].name \in res.field_details.missing_in_target

\* C7: schema_equal is true if and only if the target's spatial-reference code is
\* 4326, the geometry types are equal ignoring case, and the field comparison
\* reports no missing_in_target, no extras_not_allowed and no
\* type_length_mismatches entry.
C7_VerdictIsConjunction ==
    compared =>
        (equal <=>
            /\ tgtDesc.wkid = << 4326 >>
            /\ Lower(StrOf(srcDesc.shapeType)) = Lower(StrOf(tgtDesc.shapeType))
            /\ res.field_details.missing_in_target = {}
            /\ res.field_details.extras_not_allowed = {}
            /\ res.field_details.type_length_mismatches = {})

\* a verdict that only the geometry type decides: fields and spatial reference pass
C7_Witness ==
    /\ compared
    /\ ~equal
    /\ res.sr_ok /\ res.fields_ok /\ ~res.geom_ok
    /\ Len(srcDesc.fields) > 0

\* the two fields differ in type, or are both String with different lengths
\* (an absent length counting as 0)
TypeOrLengthDiffers(si, ti) ==
    \/ si.type # ti.type
    \/ /\ si.type = "String"
       /\ (IF si.length = << >> THEN 0 ELSE si.length[1])
             # (IF ti.length = << >> THEN 0 ELSE ti.length[1])

\* C8: every matched pair, by name or by alias, has an entry in
\* type_length_mismatches (and fields_ok is false) exactly when the types differ
\* or both are String with different lengths, an absent length counting as 0.
C8_MismatchPerPair ==
    compared =>
        LET s  == list_user_fields_rich(srcDesc)
            t  == list_user_fields_rich(tgtDesc)
            mm == res.field_details.type_length_mismatches
        IN  /\ \A p \in pairs :
                  TypeOrLengthDiffers(s[p[1]], t[p[2]])
                     <=> \E m \in mm : m.src = s[p[1]].name /\ m.tgt = t[p[2]].name
            /\ \A m \in mm :
                  \E p \in pairs : m.src = s[p[1]].name /\ m.tgt = t[p[2]].name
            /\ mm # {} => ~res.fields_ok

\* a pair made by alias of a String of absent length with one of length 0: no
\* mismatch, and the fields pass
C8_Witness ==
    /\ compared
    /\ res.fields_ok
    /\ LET s == list_user_fields_rich(srcDesc)
           t == list_user_fields_rich(tgtDesc)
       IN  \E p \in pairs :
              /\ p[1] # p[2]
              /\ s[p[1]].length = << >>
              /\ t[p[2]].length = << 0 >>

----------------------------------------------------------------------------
(* Specification of the normalizer: every string up to MaxLen over Chars *)

MaxLen == 3
Chars == {"a", "A", "_", " "}
Strings == UNION {[1..n -> Chars] : n \in 0..MaxLen}

InitNorm ==
    /\ normPc = "in"
    /\ normIn \in Strings
    /\ normOut = << >>
    /\ normTwice = << >>
    /\ GuardIdle
    /\ SyncIdle

Normalize ==
    /\ normPc = "in"
    /\ normOut' = norm_name(normIn)
    /\ normPc' = "once"
    /\ UNCHANGED << normIn, normTwice, guardVars, syncVars >>

NormalizeAgain ==
    /\ normPc = "once"
    /\ normTwice' = norm_name(normOut)
    /\ normPc' = "twice"
    /\ UNCHANGED << normIn, normOut, guardVars, syncVars >>

NextNorm == Normalize \/ NormalizeAgain

SpecNorm == InitNorm /\ [][NextNorm]_vars

\* the trimmed string ends in an underscore preceded by an underscore or by
\* whitespace: the one stripped underscore uncovers something a second call strips
DoubleTail(s) ==
    LET t == Strip(s)
    IN  /\ Len(t) >= 2
        /\ t[Len(t)] = "_"
        /\ t[Len(t) - 1] \in {"_"} \cup Whitespace

\* C10 (as stated): normalize(normalize(x)) = normalize(x) for every string x.
C10_Idempotent == normPc = "twice" => normTwice = normOut

\* C10 (amended): normalize(normalize(x)) = normalize(x) exactly for the strings
\* whose trimmed form does not end in an underscore preceded by another
\* underscore or by whitespace; for those the second call strips further.
C10_IdempotentUnlessDoubleTail ==
    normPc = "twice" => (normTwice = normOut <=> ~DoubleTail(normIn))

C10_Witness ==
    /\ normPc = "twice"
    /\ normIn = << "A", "_", "_" >>
    /\ normOut = << "a", "_" >>
    /\ normTwice = << "a" >>

----------------------------------------------------------------------------
(* syncdata.py, copy_data.py: the world process_pair acts on *)

SchemaTmp  == "in_memory/src_schema_tmp"
SrcRows    == "in_memory/src_rows"
SrcRowsWgs == "in_memory/src_rows_wgs84"
TmpLyr     == "tmp_schema_lyr"

MemNames == {SchemaTmp, SrcRows, SrcRowsWgs, TmpLyr}

\* the scratch names the claims call reserved
Reserved == {SchemaTmp, SrcRows, SrcRowsWgs}

\* arcpy.Exists / arcpy.management.Delete / creation of an object in mem
Exists(p) == mem[p] # << >>
Del(m, p) == [m EXCEPT ![p] = << >>]
Put(m, p, fc) == [m EXCEPT ![p] = << fc >>]

\* conf.ALLOWED_EXTRA_IN_TARGET
ALLOWED_EXTRA ==
    { << "c", "r", "e", "a", "t", "e", "d", "_", "u", "s", "e", "r" >>,
      << "c", "r", "e", "a", "t", "e", "d", "_", "d", "a", "t", "e" >>,
      << "l", "a", "s", "t", "_", "e", "d", "i", "t", "e", "d", "_", "u", "s", "e", "r" >>,
      << "s", "h", "a", "p", "e", ".", "s", "t", "a", "r", "e", "a", "(", ")" >>,
      << "s", "h", "a", "p", "e", ".", "s", "t", "l", "e", "n", "g", "t", "h", "(", ")" >> }

NPairs     == 2
MaxSrcRows == 1
MaxTgtRows == 2

RowsOf(tag, n) == {<< tag, k >> : k \in 1..n}

FC(wkid, shapeType, fields, rows) ==
    [wkid |-> wkid, shapeType |-> shapeType, fields |-> fields, rows |-> rows]

SourceFields == << Fld(<< "a" >>, << "x" >>, "String", << 50 >>) >>

\* the service layers a pair may read
Sources ==
    {FC(w, Polygon, SourceFields, RowsOf("src", n)) :
        w \in {<< 2932 >>, << WGS84 >>}, n \in 0..MaxSrcRows}

\* the schemas an existing target may have: the source's, the source's with an
\* allow-listed tracking field, one without the source's field, one not in WGS84
TargetSchemas ==
    { FC(<< WGS84 >>, POLYGON, SourceFields, {}),
      FC(<< WGS84 >>, Polygon,
         SourceFields \o << Fld(<< "C", "r", "e", "a", "t", "e", "d", "_", "U", "s", "e", "r" >>,
                                << >>, "String", << 255 >>) >>, {}),
      FC(<< WGS84 >>, Polygon, << >>, {}),
      FC(<< 2932 >>, Polygon, SourceFields, {}) }

\* the targets a pair may find: none, or one of TargetSchemas with old rows
Targets ==
    {<< >>} \cup
    {<< [t EXCEPT !.rows = RowsOf("old", n)] >> : t \in TargetSchemas, n \in 0..MaxTgtRows}

InitSync ==
    /\ pc = "main"
    /\ pairIdx = 1
    /\ started = [i \in 1..NPairs |-> 0]
    /\ outcome = "none"
    /\ source = << >> /\ target = << >> /\ target0 = << >>
    /\ mem = [p \in MemNames |-> << >>]
    /\ src_schema = "None" /\ rows_native = "None" /\ rows_wgs = "None"
    /\ guardRan = "no" /\ writes = {} /\ appendFrom = << >> /\ kept = {}
    /\ NormIdle
    /\ GuardIdle

----------------------------------------------------------------------------
(* syncdata.process_pair *)

\* mutant of Raise: the exception leaves process_pair and ends main
RaiseUncaught == pc' = "done" /\ outcome' = "failed"

\* except Exception as e: report, then the finally block
Raise == pc' = "cleanup" /\ outcome' = "failed"

\* main's loop calls process_pair for the next pair of the mapping; the locals
\* start as None (line 48).  The pair's service layer and target are whatever the
\* service and the geodatabase hold at that moment.
StartPair ==
    /\ pc = "main"
    /\ pairIdx <= NPairs
    /\ started' = [started EXCEPT ![pairIdx] = @ + 1]
    /\ source' \in Sources
    /\ target' \in Targets
    /\ target0' = target'
    /\ outcome' = "running"
    /\ src_schema' = "None" /\ rows_native' = "None" /\ rows_wgs' = "None"
    /\ guardRan' = "no" /\ writes' = {} /\ appendFrom' = << >> /\ kept' = {}
    /\ pc' = "extract1"
    /\ UNCHANGED << pairIdx, mem, normVars, guardVars >>

\* compare_data.make_schema_only_source: delete the layer and the snapshot if they
\* exist, make the layer with "1=2", copy it to in_memory, delete the layer.
\* Each arcpy call may raise; what it had done before stays done.
make_schema_only_source(at, next) ==
    LET snapshot == [source EXCEPT !.rows = {}]
        cleared  == Del(Del(mem, TmpLyr), SchemaTmp)
    IN
    /\ pc = at
    /\ \/ /\ mem' = Put(cleared, SchemaTmp, snapshot)
          /\ src_schema' = SchemaTmp
          /\ pc' = next
          /\ UNCHANGED outcome
       \/ /\ \/ Exists(TmpLyr) /\ mem' = mem
             \/ Exists(SchemaTmp) /\ mem' = Del(mem, TmpLyr)
             \/ mem' = cleared
             \/ mem' = Put(cleared, TmpLyr, snapshot)
             \/ mem' = Put(Put(cleared, TmpLyr, snapshot), SchemaTmp, snapshot)
          /\ UNCHANGED src_schema
          /\ Raise
    /\ UNCHANGED << pairIdx, started, source, target, target0, rows_native, rows_wgs,
                    guardRan, writes, appendFrom, kept, normVars, guardVars >>

\* line 51
Extract == make_schema_only_source("extract1", "exists")

\* line 54: if not arcpy.Exists(base_path)
exists_next(t) == IF t = << >> THEN "c_export" ELSE "extract2"

CheckExists ==
    /\ pc = "exists"
    /\ pc' = exists_next(target)
    /\ UNCHANGED << pairIdx, started, outcome, source, target, target0, mem, src_schema,
                    rows_native, rows_wgs, guardRan, writes, appendFrom, kept,
                    normVars, guardVars >>

\* copy_data.export_rows
export_rows(at, next) ==
    /\ pc = at
    /\ \/ /\ mem' = Put(mem, SrcRows, source)
          /\ rows_native' = SrcRows
          /\ pc' = next
          /\ UNCHANGED outcome
       \/ /\ \/ Exists(SrcRows) /\ mem' = mem
             \/ mem' = Del(mem, SrcRows)
             \/ mem' = Put(mem, SrcRows, source)
          /\ UNCHANGED rows_native
          /\ Raise
    /\ UNCHANGED << pairIdx, started, source, target, target0, src_schema, rows_wgs,
                    guardRan, writes, appendFrom, kept, normVars, guardVars >>

\* mutant of projected: the rows keep their native spatial reference
projected_native(fc) == fc

\* arcpy.management.Project(in_fc, out, WGS84)
projected(fc) == [fc EXCEPT !.wkid = << WGS84 >>]

\* copy_data.project_to_wgs(rows_native)
project_to_wgs(at, next) ==
    LET in_fc == mem[rows_native][1]
    IN
    /\ pc = at
    /\ \/ /\ in_fc.wkid = << WGS84 >>
          /\ rows_wgs' = rows_native
          /\ mem' = mem
          /\ pc' = next
          /\ UNCHANGED outcome
       \/ /\ in_fc.wkid # << WGS84 >>
          /\ mem' = Put(mem, SrcRowsWgs, projected(in_fc))
          /\ rows_wgs' = SrcRowsWgs
          /\ pc' = next
          /\ UNCHANGED outcome
       \/ /\ \/ mem' = mem
             \/ in_fc.wkid # << WGS84 >> /\ mem' = Del(mem, SrcRowsWgs)
             \/ in_fc.wkid # << WGS84 >> /\ mem' = Put(mem, SrcRowsWgs, projected(in_fc))
          /\ UNCHANGED rows_wgs
          /\ Raise
    /\ UNCHANGED << pairIdx, started, source, target, target0, src_schema, rows_native,
                    guardRan, writes, appendFrom, kept, normVars, guardVars >>

\* lines 56-57
ExportForCreate  == export_rows("c_export", "c_project")
ProjectForCreate == project_to_wgs("c_project", "create")

\* copy_data.create_new_table_with_rows and the return of line 64: delete the
\* target if it exists, then copy the projected rows into a new feature class.
\* When the copy raises the target is absent or holds part of the rows.
Create ==
    LET rows_fc == mem[rows_wgs][1]
        deleted == IF target # << >> THEN {"delete"} ELSE {}
    IN
    /\ pc = "create"
    /\ \/ /\ target' = << rows_fc >>
          /\ writes' = writes \cup deleted \cup {"create"}
          /\ outcome' = "created"
          /\ pc' = "cleanup"
       \/ /\ \/ target' = target /\ writes' = writes
             \/ target' = << >> /\ writes' = writes \cup deleted
             \/ \E rs \in SUBSET rows_fc.rows :
                   /\ target' = << [rows_fc EXCEPT !.rows = rs] >>
                   /\ writes' = writes \cup deleted \cup {"create"}
          /\ Raise
    /\ UNCHANGED << pairIdx, started, source, target0, mem, src_schema, rows_native,
                    rows_wgs, guardRan, appendFrom, kept, normVars, guardVars >>

\* line 67
ExtractAgain == make_schema_only_source("extract2", "guard")

\* mutant of guard_next: a schema that differs is synced all the same
guard_next_sync(ok) == "s_export"

\* line 68: if not schema_equal(...)
guard_next(ok) == IF ok THEN "s_export" ELSE "details"

\* line 68: schema_equal(src_schema, base_path, allowed_extra_in_target=ALLOWED_EXTRA)
Guard ==
    /\ pc = "guard"
    /\ \/ LET ok == schema_equal(mem[src_schema][1], target[1], ALLOWED_EXTRA)
          IN  /\ guardRan' = (IF ok THEN "ok" ELSE "differs")
              /\ pc' = guard_next(ok)
              /\ UNCHANGED outcome
       \/ /\ guardRan' = "raised"
          /\ Raise
    /\ UNCHANGED << pairIdx, started, source, target, target0, mem, src_schema,
                    rows_native, rows_wgs, writes, appendFrom, kept, normVars, guardVars >>

\* lines 70-73: schema_compare_details for the report, then return
Details ==
    /\ pc = "details"
    /\ \/ /\ outcome' = "skipped"
          /\ pc' = "cleanup"
       \/ Raise
    /\ UNCHANGED << pairIdx, started, source, target, target0, mem, src_schema,
                    rows_native, rows_wgs, guardRan, writes, appendFrom, kept,
                    normVars, guardVars >>

\* mutant of ProjectForSync: truncate_then_append is called without the projection
\* having been made
ProjectForSyncSkipped ==
    /\ pc = "s_project"
    /\ pc' = "truncate"
    /\ UNCHANGED << pairIdx, started, outcome, source, target, target0, mem, src_schema,
                    rows_native, rows_wgs, guardRan, writes, appendFrom, kept,
                    normVars, guardVars >>

\* lines 76-77
ExportForSync  == export_rows("s_export", "s_project")
ProjectForSync == project_to_wgs("s_project", "truncate")

\* truncate_then_append, line 30: TruncateTable empties the target, or raises and
\* leaves it as it is; the exception is caught by line 31
Truncate ==
    /\ pc = "truncate"
    /\ \/ /\ target' = << [target[1] EXCEPT !.rows = {}] >>
          /\ writes' = writes \cup {"truncate"}
          /\ pc' = "append"
       \/ /\ UNCHANGED << target, writes >>
          /\ pc' = "fallback"
    /\ UNCHANGED << pairIdx, started, outcome, source, target0, mem, src_schema,
                    rows_native, rows_wgs, guardRan, appendFrom, kept, normVars, guardVars >>

\* mutant of rows_after_cursor: the loop stops after the first row
rows_after_first_delete(rows) ==
    IF rows = {} THEN {} ELSE rows \ {CHOOSE r \in rows : TRUE}

\* lines 33-35: the cursor loop deletes every row
rows_after_cursor(rows) == {}

\* truncate_then_append, lines 33-35: the row-by-row fallback; when the cursor or
\* a deleteRow raises, the rows not yet deleted stay
Fallback ==
    /\ pc = "fallback"
    /\ \/ /\ target' = << [target[1] EXCEPT !.rows = rows_after_cursor(target[1].rows)] >>
          /\ writes' = writes \cup {"deleteRow"}
          /\ pc' = "append"
          /\ UNCHANGED outcome
       \/ /\ \E left \in SUBSET target[1].rows :
                /\ left # {} \/ target[1].rows = {}
                /\ target' = << [target[1] EXCEPT !.rows = left] >>
                /\ writes' = writes \cup (IF left = target[1].rows THEN {} ELSE {"deleteRow"})
          /\ Raise
    /\ UNCHANGED << pairIdx, started, source, target0, mem, src_schema, rows_native,
                    rows_wgs, guardRan, appendFrom, kept, normVars, guardVars >>

\* truncate_then_append, line 36, and lines 82-87: Append adds the projected rows
\* to whatever the target holds; when it raises, part of them may be in
AppendRows ==
    LET new == mem[rows_wgs][1].rows
    IN
    /\ pc = "append"
    /\ appendFrom' = << target[1].rows >>
    /\ \/ /\ target' = << [target[1] EXCEPT !.rows = @ \cup new] >>
          /\ writes' = writes \cup {"append"}
          /\ outcome' = "synced"
          /\ pc' = "cleanup"
       \/ /\ \E rs \in SUBSET new :
                /\ target' = << [target[1] EXCEPT !.rows = @ \cup rs] >>
                /\ writes' = writes \cup (IF rs = {} THEN {} ELSE {"append"})
          /\ Raise
    /\ UNCHANGED << pairIdx, started, source, target0, mem, src_schema, rows_native,
                    rows_wgs, guardRan, kept, normVars, guardVars >>

\* mutant of cleanup_paths: only the paths the locals hold
cleanup_paths_locals == {src_schema, rows_native, rows_wgs} \ {"None"}

\* lines 94-99: the locals that are set, and the three reserved names
cleanup_paths ==
    ({src_schema, rows_native, rows_wgs} \ {"None"}) \cup {SchemaTmp, SrcRows, SrcRowsWgs}

\* lines 92-104, then back in main's loop: every path of cleanup_paths that exists
\* is deleted; a Delete that raises is swallowed and leaves its object (the set
\* "keep"; a path listed twice is tried twice, and stays when both tries raise)
Cleanup ==
    /\ pc = "cleanup"
    /\ \E keep \in SUBSET {p \in cleanup_paths : Exists(p)} :
          /\ mem' = [p \in MemNames |->
                        IF p \in cleanup_paths \ keep THEN << >> ELSE mem[p]]
          /\ kept' = keep
    /\ pairIdx' = pairIdx + 1
    /\ pc' = "main"
    /\ UNCHANGED << started, outcome, source, target, target0, src_schema, rows_native,
                    rows_wgs, guardRan, writes, appendFrom, normVars, guardVars >>

\* main, lines 111-112: the mapping is exhausted
Finish ==
    /\ pc = "main"
    /\ pairIdx > NPairs
    /\ pc' = "done"
    /\ UNCHANGED << pairIdx, started, outcome, source, target, target0, mem, src_schema,
                    rows_native, rows_wgs, guardRan, writes, appendFrom, kept,
                    normVars, guardVars >>

Next ==
    \/ StartPair \/ Extract \/ CheckExists
    \/ ExportForCreate \/ ProjectForCreate \/ Create
    \/ ExtractAgain \/ Guard \/ Details
    \/ ExportForSync \/ ProjectForSync \/ Truncate \/ Fallback \/ AppendRows
    \/ Cleanup \/ Finish

Spec == InitSync /\ [][Next]_vars

----------------------------------------------------------------------------
(* Properties of process_pair and main *)

\* process_pair has returned for the pair whose data the state holds
pairEnded == pc \in {"main", "done"} /\ outcome \notin {"none", "running"}

targetExisted == target0 # << >>

\* C1: when the target exists and schema_equal returns not ok, process_pair never
\* truncates, deletes rows from, appends to, deletes or recreates the target: its
\* rows when the pair ends are the rows it had when the pair started.
C1_NoWriteOnMismatch ==
    (targetExisted /\ guardRan = "differs") => (writes = {} /\ target = target0)

C1_Witness ==
    /\ pairEnded
    /\ outcome = "skipped"
    /\ guardRan = "differs"
    /\ target0[1].rows # {}
    /\ source.rows # {}

\* C2: when the target exists, the guard says ok and the pair ends synced, the
\* target holds exactly the rows exported from the source and none of its earlier
\* rows, after a bulk truncate and after the row-by-row fallback alike: Append
\* starts only on a target with zero rows.
C2_SyncedHoldsSourceRows ==
    (targetExisted /\ guardRan = "ok") =>
        /\ appendFrom # << >> => appendFrom = << {} >>
        /\ (pairEnded /\ outcome = "synced") =>
              /\ target[1].rows = source.rows
              /\ target[1].rows \cap target0[1].rows = {}

\* synced through the fallback, with old rows to delete and new rows to append
C2_Witness ==
    /\ pairEnded
    /\ outcome = "synced"
    /\ "deleteRow" \in writes /\ "truncate" \notin writes
    /\ Cardinality(target0[1].rows) >= 2
    /\ source.rows # {}

\* C3 (as stated): after process_pair returns, whatever the outcome, no scratch
\* object with a reserved name exists.
C3_NoScratchLeft ==
    pairEnded => \A p \in Reserved : ~Exists(p)

\* C3 (amended): after process_pair returns, whatever the outcome, a scratch object
\* with a reserved name exists only if the Delete of it raised during this pair's
\* cleanup (the exception is swallowed and the object stays).
C3_NoScratchLeftUnlessDeleteRaised ==
    pairEnded => \A p \in Reserved : Exists(p) => p \in kept

\* the first pair failed in make_schema_only_source before the local src_schema
\* was set (the layer it made is still there); no reserved name is left
C3_Witness ==
    /\ pairEnded
    /\ outcome = "failed"
    /\ src_schema = "None"
    /\ started[1] = 1 /\ pairIdx = 2
    /\ kept = {}
    /\ \A p \in Reserved : ~Exists(p)
    /\ Exists(TmpLyr)

\* C4: an exception of any step of a pair is caught in process_pair, the pair goes
\* to cleanup and main goes on with the remaining pairs in order: whatever fails,
\* the pairs are started one after the other, none twice, a failed pair is in
\* cleanup or behind it, and main ends only behind the last pair, with every pair
\* of the mapping started exactly once.
C4_EveryPairStartedOnce ==
    /\ \A i \in 1..NPairs :
          started[i] = (IF i < pairIdx \/ (i = pairIdx /\ pc # "main") THEN 1 ELSE 0)
    /\ outcome = "failed" => pc \in {"cleanup", "main", "done"}
    /\ pc = "done" => pairIdx = NPairs + 1 /\ \A i \in 1..NPairs : started[i] = 1

\* the batch is over and its last pair failed
C4_Witness ==
    /\ pc = "done"
    /\ outcome = "failed"
    /\ \A i \in 1..NPairs : started[i] = 1

\* C6 (as stated): when the target does not exist, process_pair never evaluates the
\* guard, creates the target from the source rows reprojected to 4326 and ends in
\* the created outcome with the target holding exactly the exported source rows; it
\* never truncates or appends.
C6_MissingTargetIsCreated ==
    ~targetExisted =>
        /\ guardRan = "no"
        /\ writes \cap {"truncate", "deleteRow", "append"} = {}
        /\ pairEnded =>
              /\ outcome = "created"
              /\ target # << >>
              /\ target[1].rows = source.rows
              /\ target[1].wkid = << 4326 >>

\* C6 (amended): when the target does not exist, process_pair never evaluates the
\* guard and never truncates or appends; unless schema extraction, export,
\* projection or creation raises (the pair then ends failed), it creates the target
\* from the source rows reprojected to 4326 and ends in the created outcome with
\* the target holding exactly the exported source rows.
C6_MissingTargetIsCreatedUnlessRaise ==
    ~targetExisted =>
        /\ guardRan = "no"
        /\ writes \cap {"truncate", "deleteRow", "append"} = {}
        /\ pairEnded =>
              /\ outcome \in {"created", "failed"}
              /\ outcome = "created" =>
                    /\ target # << >>
                    /\ target[1].rows = source.rows
                    /\ target[1].wkid = << 4326 >>
                    /\ target[1].fields = source.fields

C6_Witness ==
    /\ pairEnded
    /\ ~targetExisted
    /\ outcome = "created"
    /\ source.wkid # << 4326 >>
    /\ source.rows # {}
    /\ target[1].rows = source.rows

\* the guard returned ok and export_rows and project_to_wgs have both returned in
\* this pair
rowsReady == guardRan = "ok" /\ rows_native # "None" /\ rows_wgs # "None"

\* C11: in the target-exists branch the first destructive step on the target
\* (TruncateTable or the row-by-row delete) happens only after the guard returned
\* ok and the export of the source rows and their reprojection both completed in
\* the same pair; so a pair that fails during schema extraction, guard evaluation,
\* export or projection leaves the target's rows exactly as they were.
C11_DestructiveOnlyWhenRowsReady ==
    targetExisted =>
        /\ (pc \in {"truncate", "fallback", "append"} \/ writes # {}) => rowsReady
        /\ (outcome = "failed" /\ ~rowsReady) => (writes = {} /\ target = target0)

\* a pair whose guard said ok failed in export or projection; the target still
\* holds its old rows
C11_Witness ==
    /\ pairEnded
    /\ targetExisted
    /\ outcome = "failed"
    /\ guardRan = "ok"
    /\ rows_wgs = "None"
    /\ target0[1].rows # {}
    /\ source.rows # {}
    /\ target = target0

====
